---- MODULE Spec2Model ----
(***************************************************************************)
(* The LLM fallback command of cowrie: Command_llm (commands/llm.py) and   *)
(* LLMCacheClient (core/llm_cache.py).                                     *)
(*                                                                         *)
(* Text is a sequence of one-character strings.  A Python value is a       *)
(* record tagged by its type; every type has its own field name, so two    *)
(* values of different types are never compared field by field.  A reply   *)
(* body is a sequence of lexemes, and json.loads is computed on it by a    *)
(* recursive-descent parser.                                               *)
(***************************************************************************)
EXTENDS Integers, Sequences, FiniteSets, TLC

VARIABLES environ, llm_cache_client, pc, cmd, request, response, last, logged

vars == <<environ, llm_cache_client, pc, cmd, request, response, last, logged>>

(***************************************************************************)
(* Bounds                                                                  *)
(***************************************************************************)
\* number of sessions that can have a fallback command running at once
NumSessions == 2

Sessions == 1..NumSessions

(***************************************************************************)
(* Text                                                                    *)
(***************************************************************************)
NL == "\n"

RECURSIVE Join(_, _)
\* sep.join(parts)
Join(sep, parts) ==
    IF parts = <<>> THEN <<>>
    ELSE IF Len(parts) = 1 THEN parts[1]
    ELSE parts[1] \o sep \o Join(sep, Tail(parts))

\* text.endswith(suffix), for a one-character suffix
EndsWith(text, ch) == text # <<>> /\ text[Len(text)] = ch

(***************************************************************************)
(* Python values                                                           *)
(***************************************************************************)
PyNone == [t |-> "None"]
PyStr(s) == [t |-> "str", s |-> s]
PyInt(digits) == [t |-> "int", n |-> digits]
PyBool(b) == [t |-> "bool", b |-> b]
PyList(items) == [t |-> "list", items |-> items]
\* pairs: a sequence of [key, val] with distinct keys, in insertion order
PyDict(pairs) == [t |-> "dict", pairs |-> pairs]

Pair(k, v) == [key |-> k, val |-> v]

\* bool(value)
Truthy(value) ==
    CASE value.t = "None" -> FALSE
      [] value.t = "str" -> value.s # <<>>
      [] value.t = "int" -> value.n # <<"0">>
      [] value.t = "bool" -> value.b
      [] value.t = "list" -> value.items # <<>>
      [] value.t = "dict" -> value.pairs # <<>>

\* dict.get(key, default)
DictGet(d, key, default) ==
    IF \E i \in 1..Len(d.pairs) : d.pairs[i].key = key
    THEN LET i == CHOOSE j \in 1..Len(d.pairs) : d.pairs[j].key = key
         IN  d.pairs[i].val
    ELSE default

\* d[key] = val on a dict's pairs: a repeated key keeps its place and takes
\* the new value
DictSet(pairs, key, val) ==
    IF \E i \in 1..Len(pairs) : pairs[i].key = key
    THEN [i \in 1..Len(pairs) |->
            IF pairs[i].key = key THEN Pair(key, val) ELSE pairs[i]]
    ELSE Append(pairs, Pair(key, val))

(***************************************************************************)
(* JSON: a body is a sequence of lexemes                                   *)
(***************************************************************************)
Tok(k, s) == [k |-> k, s |-> s]

\* punctuation and literals
P(k) == Tok(k, <<>>)

\* a run of text that is no JSON lexeme (for instance an HTML error page)
Junk == Tok("junk", <<"<", "h", "t", "m", "l", ">">>)
\* a byte sequence that is not valid UTF-8
BadByte == Tok("xFF", <<>>)
\* the UTF-8 byte order mark
BOM == Tok("BOM", <<>>)

RECURSIVE Dumps(_)
RECURSIVE DumpsItems(_)
RECURSIVE DumpsPairs(_)
\* json.dumps(value)
Dumps(value) ==
    CASE value.t = "None" -> <<P("null")>>
      [] value.t = "str" -> <<Tok("str", value.s)>>
      [] value.t = "int" -> <<Tok("num", value.n)>>
      [] value.t = "bool" -> <<P(IF value.b THEN "true" ELSE "false")>>
      [] value.t = "list" -> <<P("[")>> \o DumpsItems(value.items) \o <<P("]")>>
      [] value.t = "dict" -> <<P("{")>> \o DumpsPairs(value.pairs) \o <<P("}")>>

DumpsItems(items) ==
    IF items = <<>> THEN <<>>
    ELSE IF Len(items) = 1 THEN Dumps(items[1])
    ELSE Dumps(items[1]) \o <<P(",")>> \o DumpsItems(Tail(items))

DumpsPairs(pairs) ==
    IF pairs = <<>> THEN <<>>
    ELSE LET one == <<Tok("str", pairs[1].key), P(":")>> \o Dumps(pairs[1].val)
         IN  IF Len(pairs) = 1 THEN one
             ELSE one \o <<P(",")>> \o DumpsPairs(Tail(pairs))

ParseFail == [ok |-> FALSE]
ParseOk(value, nxt) == [ok |-> TRUE, val |-> value, nxt |-> nxt]

KindAt(toks, i) == IF i <= Len(toks) THEN toks[i].k ELSE "eof"

RECURSIVE ParseValue(_, _)
RECURSIVE ParseItems(_, _, _)
RECURSIVE ParseMembers(_, _, _)
\* the JSON value that starts at lexeme i, and the index after it
ParseValue(toks, i) ==
    LET k == KindAt(toks, i)
    IN  CASE k = "str" -> ParseOk(PyStr(toks[i].s), i + 1)
          [] k = "num" -> ParseOk(PyInt(toks[i].s), i + 1)
          [] k = "null" -> ParseOk(PyNone, i + 1)
          [] k = "true" -> ParseOk(PyBool(TRUE), i + 1)
          [] k = "false" -> ParseOk(PyBool(FALSE), i + 1)
          [] k = "[" -> IF KindAt(toks, i + 1) = "]"
                        THEN ParseOk(PyList(<<>>), i + 2)
                        ELSE ParseItems(toks, i + 1, <<>>)
          [] k = "{" -> IF KindAt(toks, i + 1) = "}"
                        THEN ParseOk(PyDict(<<>>), i + 2)
                        ELSE ParseMembers(toks, i + 1, <<>>)
          [] OTHER -> ParseFail

ParseItems(toks, i, acc) ==
    LET r == ParseValue(toks, i)
    IN  IF ~r.ok THEN ParseFail
        ELSE IF KindAt(toks, r.nxt) = ","
             THEN ParseItems(toks, r.nxt + 1, Append(acc, r.val))
        ELSE IF KindAt(toks, r.nxt) = "]"
             THEN ParseOk(PyList(Append(acc, r.val)), r.nxt + 1)
        ELSE ParseFail

ParseMembers(toks, i, acc) ==
    IF KindAt(toks, i) # "str" \/ KindAt(toks, i + 1) # ":" THEN ParseFail
    ELSE LET r == ParseValue(toks, i + 2)
         IN  IF ~r.ok THEN ParseFail
             ELSE IF KindAt(toks, r.nxt) = ","
                  THEN ParseMembers(toks, r.nxt + 1, DictSet(acc, toks[i].s, r.val))
             ELSE IF KindAt(toks, r.nxt) = "}"
                  THEN ParseOk(PyDict(DictSet(acc, toks[i].s, r.val)), r.nxt + 1)
             ELSE ParseFail

\* body.decode("utf-8"): raises on a byte sequence that is not UTF-8
DecodeOk(body) == \A i \in 1..Len(body) : body[i].k # "xFF"

\* json.loads(text): the whole text is one JSON value, or it raises
Loads(toks) ==
    LET r == ParseValue(toks, 1)
    IN  IF r.ok /\ r.nxt = Len(toks) + 1 THEN r ELSE ParseFail

(***************************************************************************)
(* LLMCacheClient                                                          *)
(***************************************************************************)
EnvNames == {"LLM_CACHE_URL", "LLM_CACHE_PORT", "LLM_CACHE_ENDPOINT"}

DefaultUrl == <<"h", "t", "t", "p", ":", "/", "/", "l", "o", "c", "a", "l", "h", "o", "s", "t">>
DefaultPort == <<"8", "0", "8", "0">>
DefaultEndpoint == <<"/", "q", "u", "e", "r", "y">>

\* os.environ.get(key, default): the default is used only when key is unset
EnvGet(env, key, default) == IF key \in DOMAIN env THEN env[key] ELSE default

\* bool(os.environ.get(key)): the value is set and is not the empty string
EnvTruthy(env, key) == Truthy(EnvGet(env, key, PyNone))

\* LLMCacheClient.__init__ with enabled computed from the defaulted
\* attributes instead of the raw environment
LLMCacheClient_EnabledFromDefaults(env) ==
    LET url == EnvGet(env, "LLM_CACHE_URL", PyStr(DefaultUrl)).s
        port == EnvGet(env, "LLM_CACHE_PORT", PyStr(DefaultPort)).s
        endpoint == EnvGet(env, "LLM_CACHE_ENDPOINT", PyStr(DefaultEndpoint)).s
    IN  [url |-> url,
         port |-> port,
         endpoint |-> endpoint,
         full_url |-> url \o <<":">> \o port \o endpoint,
         enabled |-> url # <<>> /\ port # <<>> /\ endpoint # <<>>]

\* LLMCacheClient.__init__ under the environment env
LLMCacheClient(env) ==
    LET url == EnvGet(env, "LLM_CACHE_URL", PyStr(DefaultUrl)).s
        port == EnvGet(env, "LLM_CACHE_PORT", PyStr(DefaultPort)).s
        endpoint == EnvGet(env, "LLM_CACHE_ENDPOINT", PyStr(DefaultEndpoint)).s
    IN  [url |-> url,
         port |-> port,
         endpoint |-> endpoint,
         full_url |-> url \o <<":">> \o port \o endpoint,
         enabled |-> /\ EnvTruthy(env, "LLM_CACHE_URL")
                     /\ EnvTruthy(env, "LLM_CACHE_PORT")
                     /\ EnvTruthy(env, "LLM_CACHE_ENDPOINT")]

ContentKey == <<"c", "o", "n", "t", "e", "n", "t">>
ResponseKey == <<"r", "e", "s", "p", "o", "n", "s", "e">>

\* json.dumps({"content": command}).encode("utf-8")
Payload(command) == Dumps(PyDict(<<Pair(ContentKey, PyStr(command))>>))

\* the request handed to agent.request (the Content-Length header, a byte
\* count of the payload, is not represented)
PostRequest(client, command) ==
    [method |-> "POST",
     url |-> client.full_url,
     content_type |-> "application/json",
     body |-> Payload(command)]

\* query_command without the test of enabled
ShortCircuit_Never(client) == FALSE

\* query_command's first test: a client that is not enabled returns None
\* before anything is sent
ShortCircuit(client) == ~client.enabled

ErrorText == <<"e", "r", "r", "o", "r">>

\* query_command returning a message for a body that cannot be read
QueryResult_ErrorText(body) ==
    IF ~DecodeOk(body) THEN PyStr(ErrorText)
    ELSE LET r == Loads(body)
         IN  IF ~r.ok THEN PyStr(ErrorText)
             ELSE IF r.val.t # "dict" THEN PyNone
             ELSE DictGet(r.val, ResponseKey, PyStr(<<>>))

\* query_command stripping the newline at the end of a string response
QueryResult_Stripped(body) ==
    IF ~DecodeOk(body) THEN PyNone
    ELSE LET r == Loads(body)
         IN  IF ~r.ok THEN PyNone
             ELSE IF r.val.t # "dict" THEN PyNone
             ELSE LET v == DictGet(r.val, ResponseKey, PyStr(<<>>))
                  IN  IF v.t = "str" /\ EndsWith(v.s, NL)
                      THEN PyStr(SubSeq(v.s, 1, Len(v.s) - 1))
                      ELSE v

\* query_command with None as the default of the lookup
QueryResult_MissingIsNone(body) ==
    IF ~DecodeOk(body) THEN PyNone
    ELSE LET r == Loads(body)
         IN  IF ~r.ok THEN PyNone
             ELSE IF r.val.t # "dict" THEN PyNone
             ELSE DictGet(r.val, ResponseKey, PyNone)

\* query_command taking a parsed value that is no object for an empty one
QueryResult_NonDictEmpty(body) ==
    IF ~DecodeOk(body) THEN PyNone
    ELSE LET r == Loads(body)
         IN  IF ~r.ok THEN PyNone
             ELSE IF r.val.t # "dict" THEN PyStr(<<>>)
             ELSE DictGet(r.val, ResponseKey, PyStr(<<>>))

\* query_command from the received body to its result: the body is decoded
\* and parsed, the "response" member is looked up on the parsed value, and
\* every Exception on the way is caught and turned into None
QueryResult(body) ==
    IF ~DecodeOk(body) THEN PyNone
    ELSE LET r == Loads(body)
         IN  IF ~r.ok THEN PyNone
             ELSE IF r.val.t # "dict" THEN PyNone
             ELSE DictGet(r.val, ResponseKey, PyStr(<<>>))

(***************************************************************************)
(* Command_llm                                                             *)
(***************************************************************************)
LogPrefix == <<"L", "L", "M", " ", "c", "o", "m", "m", "a", "n", "d", " ", "r", "e", "c", "e", "i", "v", "e", "d", " ", "i", "n", "p", "u", "t", ":", " ">>
BashPrefix == <<"b", "a", "s", "h", ":", " ">>
NotFoundSuffix == <<":", " ", "c", "o", "m", "m", "a", "n", "d", " ", "n", "o", "t", " ", "f", "o", "u", "n", "d", "\n">>

\* the command line without its arguments
FullCommand_NameOnly(self) == self.name

\* " ".join([self.name] + self.args)
FullCommand(self) == Join(<<" ">>, <<self.name>> \o self.args)

\* the not-found line built from the whole command line
NotFoundLine_FullCommand(self) == BashPrefix \o FullCommand(self) \o NotFoundSuffix

\* f"bash: {self.name}: command not found\n"
NotFoundLine(self) == BashPrefix \o self.name \o NotFoundSuffix

\* start writing the newline after every response
Resume_AlwaysNewline(self, result) ==
    IF Truthy(result)
    THEN IF result.t = "str"
         THEN {[writes |-> <<result, PyStr(<<NL>>)>>, exited |-> TRUE,
                events |-> <<"write", "write", "exit">>]}
         ELSE {[writes |-> <<>>, exited |-> FALSE, events |-> <<"raise">>],
               [writes |-> <<result>>, exited |-> FALSE, events |-> <<"write", "raise">>]}
    ELSE {[writes |-> <<PyStr(BashPrefix \o self.name \o NotFoundSuffix)>>, exited |-> TRUE,
           events |-> <<"write", "exit">>]}

\* start calling self.exit() before it writes
Resume_ExitFirst(self, result) ==
    IF Truthy(result)
    THEN IF result.t = "str"
         THEN {IF EndsWith(result.s, NL)
               THEN [writes |-> <<result>>, exited |-> TRUE,
                     events |-> <<"exit", "write">>]
               ELSE [writes |-> <<result, PyStr(<<NL>>)>>, exited |-> TRUE,
                     events |-> <<"exit", "write", "write">>]}
         ELSE {[writes |-> <<>>, exited |-> TRUE, events |-> <<"exit", "raise">>]}
    ELSE {[writes |-> <<PyStr(BashPrefix \o self.name \o NotFoundSuffix)>>, exited |-> TRUE,
           events |-> <<"exit", "write">>]}

\* Command_llm.start from the query result on: the possible outcomes, each
\* the values passed to self.write, whether self.exit() was reached, and
\* the calls in the order start made them ("write", "exit", and "raise"
\* where start ended in an exception).  A result that is true but no string
\* has no endswith, so start raises at the latest there; whether self.write
\* took the value before is left open.
Resume(self, result) ==
    IF Truthy(result)
    THEN IF result.t = "str"
         THEN {IF EndsWith(result.s, NL)
               THEN [writes |-> <<result>>, exited |-> TRUE,
                     events |-> <<"write", "exit">>]
               ELSE [writes |-> <<result, PyStr(<<NL>>)>>, exited |-> TRUE,
                     events |-> <<"write", "write", "exit">>]}
         ELSE {[writes |-> <<>>, exited |-> FALSE, events |-> <<"raise">>],
               [writes |-> <<result>>, exited |-> FALSE, events |-> <<"write", "raise">>]}
    ELSE {[writes |-> <<PyStr(NotFoundLine(self))>>, exited |-> TRUE,
           events |-> <<"write", "exit">>]}

RECURSIVE Output(_)
\* the text on the terminal after the given writes of strings
Output(writes) ==
    IF writes = <<>> THEN <<>> ELSE Head(writes).s \o Output(Tail(writes))

(***************************************************************************)
(* Inputs                                                                  *)
(***************************************************************************)
\* the non-empty value an operator gives to each setting
ConfiguredValue(key) ==
    CASE key = "LLM_CACHE_URL" -> <<"h", "t", "t", "p", ":", "/", "/", "l", "l", "m">>
      [] key = "LLM_CACHE_PORT" -> <<"9", "0", "0", "0">>
      [] key = "LLM_CACHE_ENDPOINT" -> <<"/", "a", "s", "k">>

\* a variable that is set holds its configured value or the empty string
EnvValues(key) == {PyStr(<<>>), PyStr(ConfiguredValue(key))}

Environments ==
    {env \in UNION {[S -> UNION {EnvValues(k) : k \in EnvNames}] : S \in SUBSET EnvNames} :
        \A k \in DOMAIN env : env[k] \in EnvValues(k)}

\* the settings that are changed while the process runs (every combination
\* of the three is an initial environment)
ChangedNames == {"LLM_CACHE_URL"}

\* the unresolved commands a user types: name and argument list
Invocations ==
    {[name |-> <<"l", "s">>, args |-> << <<"-", "z">>, <<"a", " ", "b">> >>],
     [name |-> <<"z", "o", "r", "k">>, args |-> <<>>]}

StatusCodes == {200, 500}

Hi == <<"h", "i">>
\* the lines of input typed at a running command
Lines == {<<"y">>}
OtherKey == <<"o", "t", "h", "e", "r">>
Reply(value) == PyDict(<<Pair(ResponseKey, value)>>)

\* the JSON values the remote may send as a well-formed body
ReplyValues ==
    {Reply(PyStr(Hi)),
     Reply(PyStr(Hi \o <<NL>>)),
     Reply(PyStr(<<>>)),
     PyDict(<<Pair(OtherKey, PyStr(Hi)), Pair(ResponseKey, PyStr(<<NL>>))>>),
     PyDict(<<>>),
     PyDict(<<Pair(OtherKey, PyStr(Hi))>>),
     Reply(PyInt(<<"4", "2">>)),
     Reply(PyInt(<<"0">>)),
     Reply(PyNone),
     Reply(PyList(<<PyStr(Hi)>>)),
     PyList(<<PyStr(ResponseKey)>>),
     PyStr(ResponseKey),
     PyInt(<<"5">>),
     PyNone}

\* bodies that are no JSON text: an error page, bytes that are not UTF-8, an
\* empty body, a truncated object, a repeated member, trailing text, a
\* byte order mark before a well-formed object
RawBodies ==
    {<<Junk>>,
     <<BadByte>>,
     <<>>,
     <<P("{"), Tok("str", ResponseKey), P(":")>>,
     <<P("{"), Tok("str", ResponseKey), P(":"), Tok("str", Hi), P(","),
       Tok("str", ResponseKey), P(":"), Tok("str", <<NL>>), P("}")>>,
     Dumps(Reply(PyStr(Hi))) \o <<Junk>>,
     <<BOM>> \o Dumps(Reply(PyStr(Hi)))}

Bodies == {Dumps(v) : v \in ReplyValues} \cup RawBodies

(***************************************************************************)
(* State                                                                   *)
(*   environ           os.environ                                          *)
(*   llm_cache_client  the module global: <<>> is None, <<c>> the instance *)
(*   pc[s]     where the command of session s stands: "idle" (none         *)
(*             running), "request" (suspended in agent.request), "body"    *)
(*             (suspended in readBody), "dead" (start raised)              *)
(*   cmd[s]    the running Command_llm instance: <<>> or <<[name, args]>>  *)
(*   request[s]   the request in flight, response[s] the response whose    *)
(*                body is awaited                                          *)
(*   last      the command that finished last: what it was, what the       *)
(*             remote did, the query result and what reached the terminal  *)
(*   logged    the message lineReceived passed to log.msg last: <<>> or    *)
(*             <<text>>                                                    *)
(***************************************************************************)
Init ==
    /\ environ \in Environments
    /\ llm_cache_client = <<>>
    /\ pc = [s \in Sessions |-> "idle"]
    /\ cmd = [s \in Sessions |-> <<>>]
    /\ request = [s \in Sessions |-> <<>>]
    /\ response = [s \in Sessions |-> <<>>]
    /\ last = <<>>
    /\ logged = <<>>

\* the n-th LLMCacheClient object made by the process: id tells objects
\* apart that hold the same configuration
Instance(n, config) ==
    [id |-> n,
     url |-> config.url,
     port |-> config.port,
     endpoint |-> config.endpoint,
     full_url |-> config.full_url,
     enabled |-> config.enabled]

\* a change of the environment reaches the client that is already built
SetEnv_Reconfigures(key, value) ==
    /\ environ' = [k \in DOMAIN environ \cup {key} |->
                      IF k = key THEN value ELSE environ[k]]
    /\ environ' # environ
    /\ llm_cache_client' =
          IF llm_cache_client = <<>>
          THEN <<>>
          ELSE <<Instance(llm_cache_client[1].id, LLMCacheClient(environ'))>>
    /\ UNCHANGED <<pc, cmd, request, response, last, logged>>

\* a variable of the process environment is set or changed
SetEnv(key, value) ==
    /\ environ' = [k \in DOMAIN environ \cup {key} |->
                      IF k = key THEN value ELSE environ[k]]
    /\ environ' # environ
    /\ UNCHANGED <<llm_cache_client, pc, cmd, request, response, last, logged>>

\* a variable of the process environment is removed
UnsetEnv(key) ==
    /\ key \in DOMAIN environ
    /\ environ' = [k \in DOMAIN environ \ {key} |-> environ[k]]
    /\ UNCHANGED <<llm_cache_client, pc, cmd, request, response, last, logged>>

\* get_llm_cache_client() building a client on every call
GetClient_AlwaysNew(global, env) ==
    <<Instance(IF global = <<>> THEN 1 ELSE global[1].id + 1, LLMCacheClient(env))>>

\* get_llm_cache_client(): the global after the call
GetClient(global, env) ==
    IF global = <<>> THEN <<Instance(1, LLMCacheClient(env))>> ELSE global

\* the record of a finished command; events are the steps of start in their
\* order: "query" (query_command is called), "result" (its result is
\* there), then what start did with the result
Finished(inv, cause, sent, code, body, result, outcome) ==
    [name |-> inv.name,
     args |-> inv.args,
     cause |-> cause,
     sent |-> sent,
     code |-> code,
     body |-> body,
     result |-> result,
     writes |-> outcome.writes,
     exited |-> outcome.exited,
     events |-> <<"query", "result">> \o outcome.events]

\* start resumed on a command kept in one place for all sessions (the
\* command of the highest session that has one) instead of on its own
Complete_SharedCommand(s, cause, code, body, result) ==
    LET t == CHOOSE u \in Sessions :
                 cmd[u] # <<>> /\ \A v \in Sessions : cmd[v] # <<>> => v <= u
    IN  \E outcome \in Resume(cmd[t][1], result) :
            /\ last' = <<Finished(cmd[t][1], cause, request[s], code, body, result, outcome)>>
            /\ pc' = [pc EXCEPT ![s] = IF outcome.exited THEN "idle" ELSE "dead"]
            /\ cmd' = [cmd EXCEPT ![s] = IF outcome.exited THEN <<>> ELSE @]
            /\ request' = [request EXCEPT ![s] = <<>>]
            /\ response' = [response EXCEPT ![s] = <<>>]

\* the query of session s resolved with result: start runs on to its end
Complete(s, cause, code, body, result) ==
    \E outcome \in Resume(cmd[s][1], result) :
        /\ last' = <<Finished(cmd[s][1], cause, request[s], code, body, result, outcome)>>
        /\ pc' = [pc EXCEPT ![s] = IF outcome.exited THEN "idle" ELSE "dead"]
        /\ cmd' = [cmd EXCEPT ![s] = IF outcome.exited THEN <<>> ELSE @]
        /\ request' = [request EXCEPT ![s] = <<>>]
        /\ response' = [response EXCEPT ![s] = <<>>]

\* Command_llm.start up to its first suspension: the command line is built,
\* the client is fetched (and built on first use) and query_command is
\* called.  A disabled client answers None at once and start runs to its
\* end; an enabled one sends the request and start is suspended.
Start(s, inv) ==
    /\ pc[s] = "idle"
    /\ llm_cache_client' = GetClient(llm_cache_client, environ)
    /\ LET client == llm_cache_client'[1]
           full_command == FullCommand(inv)
       IN  IF ShortCircuit(client)
           THEN /\ \E outcome \in Resume(inv, PyNone) :
                     last' = <<Finished(inv, "disabled", <<>>, 0, <<>>, PyNone, outcome)>>
                /\ UNCHANGED <<pc, cmd, request, response>>
           ELSE /\ pc' = [pc EXCEPT ![s] = "request"]
                /\ cmd' = [cmd EXCEPT ![s] = <<inv>>]
                /\ request' = [request EXCEPT ![s] = <<PostRequest(client, full_command)>>]
                /\ UNCHANGED <<response, last>>
    /\ UNCHANGED <<environ, logged>>

\* a failed agent.request is sent once more before the query gives up
RequestFailed_Retry(s) ==
    /\ pc[s] = "request"
    /\ IF Len(request[s]) < 2
       THEN /\ request' = [request EXCEPT ![s] = Append(@, @[1])]
            /\ UNCHANGED <<pc, cmd, response, last>>
       ELSE Complete(s, "request_failed", 0, <<>>, PyNone)
    /\ UNCHANGED <<environ, llm_cache_client, logged>>

\* agent.request fails (connection refused, DNS failure, ...): the
\* exception is caught and the query returns None
RequestFailed(s) ==
    /\ pc[s] = "request"
    /\ Complete(s, "request_failed", 0, <<>>, PyNone)
    /\ UNCHANGED <<environ, llm_cache_client, logged>>

\* the response is delivered together with its body and the query returns
\* without a second wait
ResponseReceived_WithBody(s, code) ==
    /\ pc[s] = "request"
    /\ \E body \in Bodies : Complete(s, "replied", code, body, QueryResult(body))
    /\ UNCHANGED <<environ, llm_cache_client, logged>>

\* agent.request delivers the response; readBody is called on it
ResponseReceived(s, code) ==
    /\ pc[s] = "request"
    /\ pc' = [pc EXCEPT ![s] = "body"]
    /\ response' = [response EXCEPT ![s] = <<[code |-> code]>>]
    /\ UNCHANGED <<environ, llm_cache_client, cmd, request, last, logged>>

\* readBody fails (the connection is lost before the body is complete)
BodyFailed(s) ==
    /\ pc[s] = "body"
    /\ Complete(s, "body_failed", response[s][1].code, <<>>, PyNone)
    /\ UNCHANGED <<environ, llm_cache_client, logged>>

\* the result of query_command for each body readBody can deliver
ResultOf == [b \in Bodies |-> QueryResult(b)]

\* query_command takes a reply whose status is not 200 for a failure
BodyReceived_ChecksStatus(s, body) ==
    /\ pc[s] = "body"
    /\ Complete(s, "replied", response[s][1].code, body,
                IF response[s][1].code = 200 THEN ResultOf[body] ELSE PyNone)
    /\ UNCHANGED <<environ, llm_cache_client, logged>>

\* readBody delivers the body: it is parsed and the query returns
BodyReceived(s, body) ==
    /\ pc[s] = "body"
    /\ Complete(s, "replied", response[s][1].code, body, ResultOf[body])
    /\ UNCHANGED <<environ, llm_cache_client, logged>>

\* lineReceived ends the command as well
LineReceived_Exits(s, line) ==
    /\ cmd[s] # <<>>
    /\ logged' = <<LogPrefix \o line>>
    /\ pc' = [pc EXCEPT ![s] = "idle"]
    /\ cmd' = [cmd EXCEPT ![s] = <<>>]
    /\ request' = [request EXCEPT ![s] = <<>>]
    /\ response' = [response EXCEPT ![s] = <<>>]
    /\ UNCHANGED <<environ, llm_cache_client, last>>

\* Command_llm.lineReceived: a line of input reaches the command that
\* session s is running; the line is logged
LineReceived(s, line) ==
    /\ cmd[s] # <<>>
    /\ logged' = <<LogPrefix \o line>>
    /\ UNCHANGED <<environ, llm_cache_client, pc, cmd, request, response, last>>

Next ==
    \/ \E k \in ChangedNames : \E v \in EnvValues(k) : SetEnv(k, v)
    \/ \E k \in ChangedNames : UnsetEnv(k)
    \/ \E s \in Sessions : \E inv \in Invocations : Start(s, inv)
    \/ \E s \in Sessions : RequestFailed(s)
    \/ \E s \in Sessions : \E code \in StatusCodes : ResponseReceived(s, code)
    \/ \E s \in Sessions : BodyFailed(s)
    \/ \E s \in Sessions : \E body \in Bodies : BodyReceived(s, body)
    \/ \E s \in Sessions : \E line \in Lines : LineReceived(s, line)

Spec == Init /\ [][Next]_vars

(***************************************************************************)
(* Properties                                                              *)
(***************************************************************************)
\* the not-found line of a command name, spelled out
ExpectedNotFound(name) == BashPrefix \o name \o NotFoundSuffix

\* the body cannot be decoded or is no JSON text
Unreadable(body) == ~DecodeOk(body) \/ ~Loads(body).ok

HasMember(value, key) == \E i \in 1..Len(value.pairs) : value.pairs[i].key = key

\* C1: the result of query_command is always a string or None, whatever the
\* remote does and whatever JSON type the reply's "response" member has.
C1_ResultIsStringOrNone ==
    last # <<>> => last[1].result.t \in {"str", "None"}

\* C2: every command whose query has resolved reaches exit(), for every
\* query result.
C2_ResolvedCommandExits ==
    last # <<>> => last[1].exited

\* C3: with the client disabled, with a transport failure and with a body
\* that cannot be read, the terminal shows exactly the not-found line of the
\* command name, so the three cases cannot be told apart at the terminal and
\* no error message of its own is ever shown.
C3_FailuresShowNotFound ==
    last # <<>> =>
        LET f == last[1]
        IN  (\/ f.cause \in {"disabled", "request_failed", "body_failed"}
             \/ f.cause = "replied" /\ Unreadable(f.body))
            => f.exited /\ Output(f.writes) = ExpectedNotFound(f.name)

C3_Witness ==
    /\ last # <<>>
    /\ last[1].cause = "replied"
    /\ last[1].body = <<Junk>>
    /\ Output(last[1].writes) = ExpectedNotFound(last[1].name)

\* C4: a disabled client never has a request in flight, and every command
\* it served got None without a request having been sent.
C4_DisabledSendsNothing ==
    (llm_cache_client # <<>> /\ ~llm_cache_client[1].enabled) =>
        /\ \A s \in Sessions : request[s] = <<>> /\ pc[s] = "idle"
        /\ last # <<>> => last[1].sent = <<>> /\ last[1].result = PyNone

C4_Witness ==
    /\ llm_cache_client # <<>>
    /\ ~llm_cache_client[1].enabled
    /\ last # <<>>
    /\ last[1].cause = "disabled"
    /\ last[1].sent = <<>>
    /\ last[1].result = PyNone

\* C5: a reply body that is the JSON text of an object whose "response"
\* member is the string X makes the query return exactly X.
C5_WellFormedReplyReturned ==
    (last # <<>> /\ last[1].cause = "replied") =>
        \A v \in ReplyValues :
            (v.t = "dict" /\ last[1].body = Dumps(v)) =>
                \A i \in 1..Len(v.pairs) :
                    (v.pairs[i].key = ResponseKey /\ v.pairs[i].val.t = "str")
                    => last[1].result = v.pairs[i].val

C5_Witness ==
    /\ last # <<>>
    /\ last[1].cause = "replied"
    /\ last[1].sent # <<>>
    /\ last[1].body = Dumps(Reply(PyStr(Hi \o <<NL>>)))
    /\ last[1].result = PyStr(Hi \o <<NL>>)

\* C6: for a non-empty string response R the terminal shows R when R ends
\* with a newline and R followed by one newline otherwise; the output
\* always ends with a newline.
C6_NewlineTermination ==
    (last # <<>> /\ last[1].result.t = "str" /\ last[1].result.s # <<>>) =>
        LET R == last[1].result.s
            out == Output(last[1].writes)
        IN  /\ out = IF EndsWith(R, NL) THEN R ELSE R \o <<NL>>
            /\ EndsWith(out, NL)

C6_Witness ==
    /\ last # <<>>
    /\ last[1].result = PyStr(Hi)
    /\ Output(last[1].writes) = Hi \o <<NL>>

\* C7: when the query result is None or the empty string, the terminal
\* shows exactly "bash: <name>: command not found" and a newline, with the
\* command name alone, whatever the arguments.
C7_NotFoundLineNameOnly ==
    (last # <<>> /\ (last[1].result = PyNone \/ last[1].result = PyStr(<<>>))) =>
        Output(last[1].writes) = ExpectedNotFound(last[1].name)

C7_Witness ==
    /\ last # <<>>
    /\ last[1].cause = "request_failed"
    /\ last[1].result = PyNone
    /\ last[1].args # <<>>
    /\ Output(last[1].writes) = ExpectedNotFound(<<"l", "s">>)

\* C8: a reply that parses to an object without a "response" member makes
\* the query return the empty string, and the terminal then shows the
\* not-found line, never a blank line.
C8_MissingMemberIsEmpty ==
    (last # <<>> /\ last[1].cause = "replied" /\ ~Unreadable(last[1].body)) =>
        LET value == Loads(last[1].body).val
        IN  (value.t = "dict" /\ ~HasMember(value, ResponseKey)) =>
                /\ last[1].result = PyStr(<<>>)
                /\ last[1].exited
                /\ Output(last[1].writes) = ExpectedNotFound(last[1].name)
                /\ Output(last[1].writes) # <<NL>>

C8_Witness ==
    /\ last # <<>>
    /\ last[1].cause = "replied"
    /\ last[1].body = Dumps(PyDict(<<Pair(OtherKey, PyStr(Hi))>>))
    /\ last[1].result = PyStr(<<>>)
    /\ Output(last[1].writes) = ExpectedNotFound(last[1].name)

\* the parsed value is an object whose "response" member is a string
ExpectedShape(value) ==
    /\ value.t = "dict"
    /\ \E i \in 1..Len(value.pairs) :
          value.pairs[i].key = ResponseKey /\ value.pairs[i].val.t = "str"

Constructs == llm_cache_client = <<>> /\ llm_cache_client' # <<>>

\* C10 as claimed: the client is enabled exactly when the three settings
\* are set in the environment, whatever their values.
C10_EnabledIffAllSet ==
    [][Constructs =>
        (llm_cache_client'[1].enabled <=> EnvNames \subseteq DOMAIN environ)]_vars

\* C10 as amended: the client is enabled exactly when the three settings
\* are set in the environment to values that are not the empty string.
C10_EnabledIffAllNonEmpty ==
    [][Constructs =>
        (llm_cache_client'[1].enabled <=>
            \A k \in EnvNames : k \in DOMAIN environ /\ environ[k] # PyStr(<<>>))]_vars

\* a client built while LLM_CACHE_URL was set to the empty string and the
\* other two settings to their values
C10_Witness ==
    /\ llm_cache_client # <<>>
    /\ ~llm_cache_client[1].enabled
    /\ llm_cache_client[1].url = <<>>
    /\ llm_cache_client[1].port = ConfiguredValue("LLM_CACHE_PORT")
    /\ llm_cache_client[1].endpoint = ConfiguredValue("LLM_CACHE_ENDPOINT")


\* C11: a query of an enabled client issues exactly one POST request: a
\* suspended command has one request out, and a finished command of an
\* enabled client has sent one request, also after a failure.
C11_OneRoundTrip ==
    /\ \A s \in Sessions :
          pc[s] \in {"request", "body"} =>
              Len(request[s]) = 1 /\ request[s][1].method = "POST"
    /\ (last # <<>> /\ last[1].cause # "disabled") =>
          Len(last[1].sent) = 1 /\ last[1].sent[1].method = "POST"

C11_Witness ==
    /\ last # <<>>
    /\ last[1].cause = "request_failed"
    /\ Len(last[1].sent) = 1
    /\ \E s \in Sessions : pc[s] = "body" /\ Len(request[s]) = 1

RECURSIVE SpaceJoined(_, _)
\* text followed by each of words, a single space before each
SpaceJoined(text, words) ==
    IF words = <<>> THEN text
    ELSE SpaceJoined(text \o <<" ">> \o Head(words), Tail(words))

\* the "content" member the remote reads in a request
ContentOf(req) == Loads(req.body).val

\* C12: the request's body is the JSON object whose only member "content"
\* is the command name followed by the arguments in order, each after a
\* single space, with nothing quoted or escaped.
C12_ContentIsCommandLine ==
    /\ \A s \in Sessions :
          request[s] # <<>> =>
              /\ DecodeOk(request[s][1].body)
              /\ Loads(request[s][1].body).ok
              /\ ContentOf(request[s][1]) =
                    PyDict(<<Pair(ContentKey,
                                  PyStr(SpaceJoined(cmd[s][1].name, cmd[s][1].args)))>>)
    /\ (last # <<>> /\ last[1].sent # <<>>) =>
          ContentOf(last[1].sent[1]) =
              PyDict(<<Pair(ContentKey, PyStr(SpaceJoined(last[1].name, last[1].args)))>>)

C12_Witness ==
    /\ last # <<>>
    /\ last[1].sent # <<>>
    /\ last[1].args = << <<"-", "z">>, <<"a", " ", "b">> >>
    /\ ContentOf(last[1].sent[1]) =
          PyDict(<<Pair(ContentKey, PyStr(<<"l", "s", " ", "-", "z", " ", "a", " ", "b">>))>>)


\* C13: whatever the interleaving of the sessions' commands, the client in
\* the module global is the first and only LLMCacheClient object the
\* process has made.
C13_SingleInstance ==
    llm_cache_client # <<>> => llm_cache_client[1].id = 1

\* two sessions have started a command, the second while the query of the
\* first was outstanding
C13_Witness ==
    /\ llm_cache_client # <<>>
    /\ llm_cache_client[1].id = 1
    /\ \A s \in {1, 2} : pc[s] \in {"request", "body"}


\* session s has a query outstanding
Outstanding(s) == pc[s] \in {"request", "body"}

\* the step ends the outstanding query of session s
Resolves(s) == Outstanding(s) /\ pc'[s] \notin {"request", "body"}

\* C14: when the query of a session resolves, in whatever order among the
\* outstanding ones, the finished command is that session's own (its name,
\* its arguments, its request, the status of its response), its output is
\* made of its own name and its own result, and the command, request and
\* response of every other session are left as they were.
C14_OwnCommandOwnReply ==
    [][\A s \in Sessions :
          Resolves(s) =>
              /\ last' # <<>>
              /\ last'[1].name = cmd[s][1].name
              /\ last'[1].args = cmd[s][1].args
              /\ last'[1].sent = request[s]
              /\ pc[s] = "body" => last'[1].code = response[s][1].code
              /\ last'[1].exited =>
                    LET r == last'[1].result
                        out == Output(last'[1].writes)
                    IN  IF r.t = "str" /\ r.s # <<>>
                        THEN out \in {r.s, r.s \o <<NL>>}
                        ELSE out = ExpectedNotFound(cmd[s][1].name)
              /\ \A t \in Sessions \ {s} :
                    /\ pc'[t] = pc[t]
                    /\ cmd'[t] = cmd[t]
                    /\ request'[t] = request[t]
                    /\ response'[t] = response[t]]_vars

\* a command got its reply while the command of another name was waiting
\* for its body
C14_Witness ==
    /\ last # <<>>
    /\ last[1].cause = "replied"
    /\ last[1].result = PyStr(Hi)
    /\ Output(last[1].writes) = Hi \o <<NL>>
    /\ \E t \in Sessions : pc[t] = "body" /\ cmd[t][1].name # last[1].name


\* C15 as claimed: a query is suspended once: the step that resumes a
\* suspended query runs it to its end.
C15_OneSuspensionPoint ==
    [][\A s \in Sessions :
          (Outstanding(s) /\ pc'[s] # pc[s]) => pc'[s] \in {"idle", "dead"}]_vars

\* C15 as amended: a query is suspended at two points and nowhere else.  A
\* started command is first suspended in agent.request; resumed from there
\* it either fails and runs to its end or is suspended a second time in
\* readBody; resumed from readBody it runs to its end.  A reply body is
\* only had after the second suspension.
C15_TwoSuspensionPoints ==
    [][\A s \in Sessions :
          /\ (pc[s] = "idle" /\ pc'[s] # "idle") => pc'[s] = "request"
          /\ (pc[s] = "request" /\ pc'[s] # "request") =>
                \/ pc'[s] = "body" /\ last' = last
                \/ pc'[s] = "idle" /\ last' # <<>> /\ last'[1].cause = "request_failed"
          /\ (pc[s] = "body" /\ pc'[s] # "body") =>
                /\ pc'[s] \in {"idle", "dead"}
                /\ last' # <<>>
                /\ last'[1].cause \in {"replied", "body_failed"}
          /\ pc[s] = "dead" => pc'[s] = "dead"]_vars

\* one query waits for its response while another, past that wait, waits
\* for its body
C15_Witness ==
    \E s, t \in Sessions : pc[s] = "request" /\ pc[t] = "body" /\ response[t] # <<>>


\* the positions of an event in a sequence of events
Positions(ev, e) == {i \in 1..Len(ev) : ev[i] = e}

\* C16: the steps of a command come in the order query issued, query
\* resolved, output written, exit: every write comes after the result,
\* exit comes once at most, after a write and as the last step, and the
\* steps that leave a query outstanding write nothing.
C16_EventOrder ==
    /\ [](last # <<>> =>
            LET ev == last[1].events
            IN  /\ Positions(ev, "query") = {1}
                /\ Positions(ev, "result") = {2}
                /\ Cardinality(Positions(ev, "exit")) <= 1
                /\ \A i \in Positions(ev, "exit") :
                      i = Len(ev) /\ Positions(ev, "write") # {}
                /\ last[1].exited <=> Positions(ev, "exit") # {}
                /\ Cardinality(Positions(ev, "write")) = Len(last[1].writes))
    /\ [][\A s \in Sessions :
             (pc'[s] \in {"request", "body"} /\ pc'[s] # pc[s]) => last' = last]_vars

C16_Witness ==
    /\ last # <<>>
    /\ last[1].cause = "replied"
    /\ last[1].events = <<"query", "result", "write", "write", "exit">>
    /\ Output(last[1].writes) = Hi \o <<NL>>


\* C17: a line of input delivered to a command, before its query resolves
\* or after, changes nothing but the log: the request in flight, the
\* awaited response, the position and the instance of every command, the
\* client and the record of what was returned and written stay as they are.
C17_LineReceivedNoEffect ==
    [][logged' # logged =>
          UNCHANGED <<environ, llm_cache_client, pc, cmd, request, response, last>>]_vars

C17_Witness ==
    /\ logged = <<LogPrefix \o <<"y">> >>
    /\ \E s \in Sessions : pc[s] = "body"
    /\ last # <<>>
    /\ last[1].cause = "replied"
    /\ last[1].exited


\* C18: once the client is built, no step changes its enabled flag, its
\* address or any other attribute, whatever happens to the environment,
\* and a command started later sends its request to the address the client
\* resolved when it was built.
C18_ConfigurationFixed ==
    [][llm_cache_client # <<>> =>
          /\ llm_cache_client'[1].enabled = llm_cache_client[1].enabled
          /\ llm_cache_client'[1].full_url = llm_cache_client[1].full_url
          /\ llm_cache_client' = llm_cache_client
          /\ \A s \in Sessions :
                (pc[s] = "idle" /\ pc'[s] = "request") =>
                    request'[s][1].url = llm_cache_client[1].full_url]_vars

\* LLM_CACHE_URL is gone from the environment or empty, which would build
\* a disabled client, and the client built before is still enabled and has
\* requests out to the address it resolved
C18_Witness ==
    /\ llm_cache_client # <<>>
    /\ llm_cache_client[1].enabled
    /\ llm_cache_client[1].url = ConfiguredValue("LLM_CACHE_URL")
    /\ ~EnvTruthy(environ, "LLM_CACHE_URL")
    /\ pc[1] = "body"
    /\ pc[2] = "request"
    /\ request[2][1].url = ConfiguredValue("LLM_CACHE_URL") \o <<":">>
                              \o ConfiguredValue("LLM_CACHE_PORT")
                              \o ConfiguredValue("LLM_CACHE_ENDPOINT")


\* C19: two replies with the same body and different HTTP status codes
\* give the same query result, and for the same command the same terminal
\* output and the same exit.  The two replies are those of two commands
\* that finish one after the other, in all combinations of body and status.
C19_StatusIgnored ==
    [][(/\ last # <<>>
        /\ last' # <<>>
        /\ last[1].cause = "replied"
        /\ last'[1].cause = "replied"
        /\ last[1].body = last'[1].body
        /\ last[1].code # last'[1].code) =>
            /\ last'[1].result = last[1].result
            /\ (/\ last[1].name = last'[1].name
                /\ last[1].args = last'[1].args
                /\ last[1].result.t \in {"str", "None"}) =>
                    /\ last'[1].writes = last[1].writes
                    /\ last'[1].exited = last[1].exited]_vars

\* a reply with status 500 whose body carries a response text: the text is
\* returned and written as for status 200
C19_Witness ==
    /\ last # <<>>
    /\ last[1].cause = "replied"
    /\ last[1].code = 500
    /\ last[1].body = Dumps(Reply(PyStr(Hi)))
    /\ last[1].result = PyStr(Hi)
    /\ Output(last[1].writes) = Hi \o <<NL>>
    /\ last[1].exited

====
